---------------------------- MODULE Spec2Model ----------------------------
(***************************************************************************)
(* Room/session coordination layer of the whiteboard + video-conferencing  *)
(* backend (socket.io server).  The registry `rooms`, the per-socket       *)
(* fields (`socket.roomId`, `socket.username`, the transport rooms the     *)
(* socket is subscribed to) and the events emitted by the handler that ran *)
(* last are the state; every socket.on(...) handler is one atomic action   *)
(* (single-threaded event loop).                                           *)
(***************************************************************************)
EXTENDS Naturals, Integers, Sequences, FiniteSets, TLC

VARIABLES rooms,    \* const rooms = new Map(): roomId -> room
          sock,     \* per connection: connected, roomId, username, subscribed transport rooms
          outbox,   \* events emitted by the handler that ran last, in emission order
          last,     \* the inbound event handled last (kind, connection)
          handled,  \* number of inbound events handled so far
          active,   \* number of connections that have sent an event so far
          now       \* new Date(): the wall clock, in hours since the server started

vars == <<rooms, sock, outbox, last, handled, active, now>>

----------------------------------------------------------------------------
(* Bounds and input sets *)

\* events explored per behaviour
MaxEvents == 4

\* process.env.MAX_USERS_PER_ROOM: the capacity every room is created with
MaxUsersPerRoom == 2

ConnOrder == <<"s1", "s2", "s3">>    \* socket ids, in the order of their first event
Conns     == {ConnOrder[i] : i \in 1..Len(ConnOrder)}
RoomIds   == {"r1", "r2"}            \* room ids clients name
Usernames == {"ann"}
Undef     == "undefined"             \* JavaScript undefined / a missing payload field
Flags     == {"true", "false", Undef} \* an optional boolean payload field, as sent

\* An optional array field of a payload, as the set of the values sent under its
\* name: empty when the field is omitted.
Omitted    == {}
NodeInputs == {Omitted, {<< >>}, {<<"n1">>}}
EdgeInputs == {Omitted, {<< >>}, {<<"e1">>}}

\* data.target of a relayed message: any string the client chooses
Targets    == Conns \cup RoomIds
RelayKinds == {"offer", "answer", "ice-candidate"}
Texts      == {"hi"}                 \* data.text of a chat message

\* the events whose handler reads a field of its payload object
PayloadKinds ==
    RelayKinds \cup {"join-room", "join-video-room", "media-toggle", "send-message",
                     "update-diagram"}

\* const MAX_ROOM_AGE = 24 * 60 * 60 * 1000, in hours
MAX_ROOM_AGE == 24

\* the time that may pass between two handlers, in hours
Delays == {MAX_ROOM_AGE, MAX_ROOM_AGE + 1}

----------------------------------------------------------------------------
(* JavaScript Map with insertion order: a sequence of entries keyed by .id *)

MapKeys(m) == [i \in 1..Len(m) |-> m[i].id]

MapKeySet(m) == {m[i].id : i \in 1..Len(m)}

MapHas(m, k) == \E i \in 1..Len(m) : m[i].id = k

MapGet(m, k) == m[CHOOSE i \in 1..Len(m) : m[i].id = k]

\* Map.prototype.set: an existing key keeps its position, a new key is appended
MapSet(m, k, v) ==
    IF MapHas(m, k)
    THEN [i \in 1..Len(m) |-> IF m[i].id = k THEN v ELSE m[i]]
    ELSE Append(m, v)

\* Map.prototype.delete: removing an absent key changes nothing
MapDelete(m, k) == SelectSeq(m, LAMBDA e : e.id # k)

----------------------------------------------------------------------------
(* Transport: who receives an emit *)

\* io.to(x): every connected socket subscribed to transport room x
IoTo(s, x) == {d \in Conns : s[d].connected /\ x \in s[d].rooms}

\* socket.to(x) taken for io.to(x): the sending socket gets the event as well
SocketToAll(s, c, x) == IoTo(s, x)

\* socket.to(x): the same, without the sending socket
SocketTo(s, c, x) == IoTo(s, x) \ {c}

Emit(ev, to, data) == [ev |-> ev, to |-> to, data |-> data]

----------------------------------------------------------------------------
(* Room construction *)

Settings == [maxUsers |-> MaxUsersPerRoom, allowScreenShare |-> TRUE, allowRecording |-> TRUE]

NewRoom(c) ==
    [nodes |-> <<>>, edges |-> <<>>, users |-> <<>>, videoUsers |-> <<>>,
     owner |-> c, created |-> now, settings |-> Settings]

NewUser(c, username, isOwner) ==
    [id |-> c, username |-> username, isOwner |-> isOwner,
     videoEnabled |-> TRUE, audioEnabled |-> TRUE]

\* rooms.has(roomId)
Has(rs, r) == r \in DOMAIN rs

\* rooms.set(roomId, room)
Put(rs, r, room) == [x \in (DOMAIN rs) \cup {r} |-> IF x = r THEN room ELSE rs[x]]

\* rooms.delete(roomId)
Remove(rs, r) == [x \in (DOMAIN rs) \ {r} |-> rs[x]]

\* rooms.set(roomId, {...}) without its rooms.has guard: a join starts the room afresh
AlwaysCreate(rs, r, c) == Put(rs, r, NewRoom(c))

\* if (!rooms.has(roomId)) rooms.set(roomId, {...})
Ensure(rs, r, c) == IF Has(rs, r) THEN rs ELSE Put(rs, r, NewRoom(c))

\* the recomputation that sets the new owner's flag and forgets to clear the old one
ReflagKeepOld(m, newOwner) ==
    [i \in 1..Len(m) |-> [m[i] EXCEPT !.isOwner = @ \/ (m[i].id = newOwner)]]

\* user.isOwner = userId === newOwner, for every entry of a roster
Reflag(m, newOwner) == [i \in 1..Len(m) |-> [m[i] EXCEPT !.isOwner = (m[i].id = newOwner)]]

\* what the two Map.delete calls return: the rosters that held an entry of c
Removed(s, rs, c) ==
    IF s[c].roomId # Undef /\ Has(rs, s[c].roomId)
    THEN {n \in {"users"} : MapHas(rs[s[c].roomId].users, c)} \cup
         {n \in {"videoUsers"} : MapHas(rs[s[c].roomId].videoUsers, c)}
    ELSE {}

----------------------------------------------------------------------------
\* The inbound event being handled: its kind, the connection it came from, and the
\* rosters its Map.delete calls removed an entry from (none for most events; for the
\* sweep of old rooms, the rooms it deleted), and whether an exception left the handler
Event(ev, c) == [ev |-> ev, id |-> c, removed |-> {}, threw |-> FALSE]

Init ==
    /\ rooms = [r \in {} |-> Undef]
    /\ sock = [c \in Conns |->
                 [connected |-> TRUE, roomId |-> Undef, username |-> Undef, rooms |-> {c}]]
    /\ outbox = << >>
    /\ last = Event("none", Undef)
    /\ handled = 0
    /\ active = 0
    /\ now = 0

----------------------------------------------------------------------------
(* socket.on("join-room", ({ roomId, username, isOwner = false }) => ...) *)

\* the capacity check written with > : one connection too many gets in
IsFullOffByOne(room) == Len(room.users) > room.settings.maxUsers

\* if (room.users.size >= room.settings.maxUsers)
IsFull(room) == Len(room.users) >= room.settings.maxUsers

JoinRoom(c, roomId, username, isOwner) ==
    /\ sock[c].connected
    /\ last' = Event("join-room", c)
    /\ UNCHANGED now
    /\ IF roomId = Undef \/ username = Undef
       THEN /\ outbox' = <<Emit("error", {c}, [message |-> "Room ID and username are required"])>>
            /\ UNCHANGED <<rooms, sock>>
       ELSE LET left == IF sock[c].roomId # Undef
                        THEN sock[c].rooms \ {sock[c].roomId}
                        ELSE sock[c].rooms
                s1 == [sock EXCEPT ![c].rooms = left \cup {roomId},
                                   ![c].roomId = roomId,
                                   ![c].username = username]
                rs1 == Ensure(rooms, roomId, c)
                room == rs1[roomId]
            IN  IF IsFull(room)
                THEN /\ sock' = s1
                     /\ rooms' = rs1
                     /\ outbox' = <<Emit("error", {c}, [message |-> "Room is full"])>>
                ELSE LET users2 == MapSet(room.users, c,
                                          NewUser(c, username, isOwner \/ room.owner = c))
                         room2 == [room EXCEPT !.users = users2]
                     IN  /\ sock' = s1
                         /\ rooms' = Put(rs1, roomId, room2)
                         /\ outbox' =
                              << Emit("room-state", {c},
                                      [nodes |-> room2.nodes, edges |-> room2.edges,
                                       users |-> users2, isOwner |-> (room2.owner = c),
                                       roomSettings |-> room2.settings]),
                                 Emit("user-joined", SocketTo(s1, c, roomId),
                                      [username |-> username, socketId |-> c, users |-> users2]),
                                 Emit("users-updated", IoTo(s1, roomId), users2) >>

----------------------------------------------------------------------------
(* socket.on("join-video-room", ({ roomId, username, isOwner = false }) => ...) *)

\* if (room.videoUsers.size >= room.settings.maxUsers)
VideoIsFull(room) == Len(room.videoUsers) >= room.settings.maxUsers

JoinVideoRoom(c, roomId, username, isOwner) ==
    /\ sock[c].connected
    /\ last' = Event("join-video-room", c)
    /\ UNCHANGED now
    /\ LET s1 == [sock EXCEPT ![c].rooms = @ \cup {roomId},
                              ![c].roomId = roomId,
                              ![c].username = username]
           rs1 == Ensure(rooms, roomId, c)
           room == rs1[roomId]
       IN  IF VideoIsFull(room)
           THEN /\ sock' = s1
                /\ rooms' = rs1
                /\ outbox' = <<Emit("error", {c}, [message |-> "Video room is full"])>>
           ELSE LET video2 == MapSet(room.videoUsers, c,
                                     NewUser(c, username, isOwner \/ room.owner = c))
                    room2 == [room EXCEPT !.videoUsers = video2]
                IN  /\ sock' = s1
                    /\ rooms' = Put(rs1, roomId, room2)
                    /\ outbox' =
                         << Emit("video-room-state", {c},
                                 [users |-> video2, isOwner |-> (room2.owner = c)]),
                            Emit("video-user-joined", SocketTo(s1, c, roomId),
                                 [user |-> NewUser(c, username, room2.owner = c),
                                  users |-> video2]) >>

----------------------------------------------------------------------------
(* socket.on("media-toggle", (data) => ...) *)

\* the assignment without its undefined guard
ToggleUnguarded(old, sent) == sent = "true"

\* if (data.x !== undefined) user.xEnabled = data.x
Toggle(old, sent) == IF sent # Undef THEN sent = "true" ELSE old

MediaToggle(c, video, audio) ==
    /\ sock[c].connected
    /\ last' = Event("media-toggle", c)
    /\ UNCHANGED <<sock, now>>
    /\ IF sock[c].roomId # Undef /\ Has(rooms, sock[c].roomId)
       THEN LET r == sock[c].roomId
                room == rooms[r]
            IN  IF MapHas(room.videoUsers, c)
                THEN LET user == MapGet(room.videoUsers, c)
                         user2 == [user EXCEPT !.videoEnabled = Toggle(@, video),
                                               !.audioEnabled = Toggle(@, audio)]
                     IN  /\ outbox' = <<Emit("user-media-update", SocketTo(sock, c, r),
                                             [userId |-> c, video |-> user2.videoEnabled,
                                              audio |-> user2.audioEnabled,
                                              username |-> user2.username])>>
                         /\ rooms' = [rooms EXCEPT ![r].videoUsers = MapSet(@, c, user2)]
                ELSE /\ outbox' = << >>
                     /\ UNCHANGED rooms
       ELSE /\ outbox' = << >>
            /\ UNCHANGED rooms

----------------------------------------------------------------------------
(* socket.on("transfer-ownership", (newOwnerId) => ...) *)

\* the ownership check written as a membership check
MayTransferMember(room, c) == MapHas(room.users, c)

\* if (room.owner === socket.id)
MayTransfer(room, c) == room.owner = c

TransferOwnership(c, newOwnerId) ==
    /\ sock[c].connected
    /\ last' = Event("transfer-ownership", c)
    /\ UNCHANGED <<sock, now>>
    /\ IF sock[c].roomId # Undef /\ Has(rooms, sock[c].roomId)
       THEN LET r == sock[c].roomId
                room == rooms[r]
            IN  IF MayTransfer(room, c)
                THEN LET room2 == [room EXCEPT !.owner = newOwnerId,
                                               !.users = Reflag(@, newOwnerId),
                                               !.videoUsers = Reflag(@, newOwnerId)]
                     IN  /\ rooms' = [rooms EXCEPT ![r] = room2]
                         /\ outbox' = <<Emit("ownership-transferred", IoTo(sock, r),
                                             [newOwnerId |-> newOwnerId,
                                              users |-> room2.users])>>
                ELSE /\ outbox' = << >>
                     /\ UNCHANGED rooms
       ELSE /\ outbox' = << >>
            /\ UNCHANGED rooms

----------------------------------------------------------------------------
(* socket.on("leave-video-room", () => ...) *)

\* the registry and the emitted events after socket c leaves the video roster
VideoDepart(s, rs, c) ==
    IF s[c].roomId # Undef /\ Has(rs, s[c].roomId)
    THEN LET r == s[c].roomId
             video2 == MapDelete(rs[r].videoUsers, c)
         IN  [rooms |-> [rs EXCEPT ![r].videoUsers = video2],
              outbox |-> <<Emit("video-user-left", SocketTo(s, c, r),
                                [userId |-> c, users |-> video2])>>]
    ELSE [rooms |-> rs, outbox |-> << >>]

LeaveVideoRoom(c) ==
    /\ sock[c].connected
    /\ last' = [Event("leave-video-room", c) EXCEPT
                  !.removed = Removed(sock, rooms, c) \cap {"videoUsers"}]
    /\ UNCHANGED <<sock, now>>
    /\ rooms' = VideoDepart(sock, rooms, c).rooms
    /\ outbox' = VideoDepart(sock, rooms, c).outbox

----------------------------------------------------------------------------
(* The body shared, line for line, by socket.on("leave-room") and          *)
(* socket.on("disconnect"): remove from both rosters, hand ownership on,   *)
(* delete the room when its general roster is empty, else notify.          *)

\* the departure without its second delete
RemoveFromUsersOnly(room, c) == [room EXCEPT !.users = MapDelete(@, c)]

\* room.users.delete(socket.id); room.videoUsers.delete(socket.id)
RemoveFromRosters(room, c) ==
    [room EXCEPT !.users = MapDelete(@, c), !.videoUsers = MapDelete(@, c)]

\* if (room.owner === socket.id && room.users.size > 0)
MustDelegate(room, c) == room.owner = c /\ Len(room.users) > 0

\* the replacement taken from the end of the roster
NextOwnerLast(room) == MapKeys(room.users)[Len(room.users)]

\* const newOwner = Array.from(room.users.keys())[0]
NextOwner(room) == MapKeys(room.users)[1]

\* room.owner = newOwner and the isOwner recomputation of both rosters
Delegate(room) ==
    [room EXCEPT !.owner = NextOwner(room),
                 !.users = Reflag(@, NextOwner(room)),
                 !.videoUsers = Reflag(@, NextOwner(room))]

\* the registry and the emitted events after socket c, with transport state s, departs
Depart(s, rs, c) ==
    IF s[c].roomId # Undef /\ Has(rs, s[c].roomId)
    THEN LET r == s[c].roomId
             room1 == RemoveFromRosters(rs[r], c)
             room2 == IF MustDelegate(room1, c) THEN Delegate(room1) ELSE room1
             transferred ==
                 IF MustDelegate(room1, c)
                 THEN <<Emit("ownership-transferred", IoTo(s, r),
                             [newOwnerId |-> room2.owner, users |-> room2.users])>>
                 ELSE << >>
         IN  IF Len(room2.users) = 0
             THEN [rooms |-> Remove(rs, r), outbox |-> transferred]
             ELSE [rooms |-> Put(rs, r, room2),
                   outbox |-> transferred \o
                      << Emit("user-left", SocketTo(s, c, r),
                              [socketId |-> c, username |-> s[c].username,
                               users |-> room2.users]),
                         Emit("video-user-left", SocketTo(s, c, r),
                              [userId |-> c, users |-> room2.videoUsers]),
                         Emit("users-updated", IoTo(s, r), room2.users) >>]
    ELSE [rooms |-> rs, outbox |-> << >>]

(* socket.on("leave-room", () => ...) *)
LeaveRoom(c) ==
    /\ sock[c].connected
    /\ last' = [Event("leave-room", c) EXCEPT !.removed = Removed(sock, rooms, c)]
    /\ UNCHANGED <<sock, now>>
    /\ rooms' = Depart(sock, rooms, c).rooms
    /\ outbox' = Depart(sock, rooms, c).outbox

(* socket.on("disconnect", (reason) => ...): the transport has already     *)
(* taken the socket out of every transport room when the handler runs      *)
Disconnect(c) ==
    /\ sock[c].connected
    /\ last' = [Event("disconnect", c) EXCEPT !.removed = Removed(sock, rooms, c)]
    /\ UNCHANGED now
    /\ LET s1 == [sock EXCEPT ![c].connected = FALSE, ![c].rooms = {}]
       IN  /\ sock' = s1
           /\ rooms' = Depart(s1, rooms, c).rooms
           /\ outbox' = Depart(s1, rooms, c).outbox

----------------------------------------------------------------------------
(* A handler whose call into the transport throws.  leave-room and          *)
(* disconnect have no try block: the exception leaves the handler with the  *)
(* registry as the statements before the failing emit made it.              *)

\* the room announced before it is handed over: the first emit sees the old owner
RoomAtEmitLate(room, c, k) ==
    IF k = 1 /\ MustDelegate(RemoveFromRosters(room, c), c)
    THEN RemoveFromRosters(room, c)
    ELSE IF MustDelegate(RemoveFromRosters(room, c), c)
         THEN Delegate(RemoveFromRosters(room, c))
         ELSE RemoveFromRosters(room, c)

\* the room when the handler calls its k-th emit: both deletes, the assignment of
\* room.owner and the isOwner loops come before the first emit
RoomAtEmit(room, c, k) ==
    IF MustDelegate(RemoveFromRosters(room, c), c)
    THEN Delegate(RemoveFromRosters(room, c))
    ELSE RemoveFromRosters(room, c)

\* the handler's k-th emit throws: the emits before it went out, nothing after it ran
DepartFails(s, c, k) ==
    /\ k \in 1..Len(Depart(s, rooms, c).outbox)
    /\ rooms' = Put(rooms, s[c].roomId, RoomAtEmit(rooms[s[c].roomId], c, k))
    /\ outbox' = SubSeq(Depart(s, rooms, c).outbox, 1, k - 1)

LeaveRoomFails(c, k) ==
    /\ sock[c].connected
    /\ last' = [Event("leave-room", c) EXCEPT !.removed = Removed(sock, rooms, c),
                                              !.threw = TRUE]
    /\ UNCHANGED <<sock, now>>
    /\ DepartFails(sock, c, k)

DisconnectFails(c, k) ==
    /\ sock[c].connected
    /\ last' = [Event("disconnect", c) EXCEPT !.removed = Removed(sock, rooms, c),
                                              !.threw = TRUE]
    /\ UNCHANGED now
    /\ sock' = [sock EXCEPT ![c].connected = FALSE, ![c].rooms = {}]
    /\ DepartFails(sock', c, k)

----------------------------------------------------------------------------
(* An event that arrives without a payload object (data is undefined) *)

\* the handler evaluates a property of undefined: in the parameter list of the two
\* joins, at data.target, data.video, data.text and data.nodes in the others
Fails(c, kind) ==
    CASE kind \in RelayKinds \cup {"join-room", "join-video-room"} -> TRUE
      [] kind = "media-toggle" ->
            /\ sock[c].roomId # Undef /\ Has(rooms, sock[c].roomId)
            /\ MapHas(rooms[sock[c].roomId].videoUsers, c)
      [] kind = "send-message" -> sock[c].roomId # Undef
      [] kind = "update-diagram" -> sock[c].roomId # Undef /\ Has(rooms, sock[c].roomId)

\* None of these expressions is inside a try block (those of the joins start after
\* the parameter list), so the TypeError leaves the handler; nothing was assigned or
\* emitted before it.
NoPayload(c, kind) ==
    /\ sock[c].connected
    /\ last' = [Event(kind, c) EXCEPT !.threw = Fails(c, kind)]
    /\ outbox' = << >>
    /\ UNCHANGED <<rooms, sock, now>>

\* the process has no uncaughtException handler: an exception that leaves a handler
\* ends it, and no further event is handled
Alive == ~last.threw

----------------------------------------------------------------------------
(* app.delete('/api/rooms/:roomId') *)

HttpDeleteRoom(r) ==
    /\ Has(rooms, r)
    /\ rooms' = Remove(rooms, r)
    /\ outbox' = << >>
    /\ last' = Event("http-delete-room", Undef)
    /\ UNCHANGED <<sock, now>>

----------------------------------------------------------------------------
(* socket.on("offer" / "answer" / "ice-candidate", (data) => ...) *)

\* socket.to(data.target).emit(kind, {..., sender: socket.id, username: socket.username}):
\* the target names a transport room; a socket's own id is one of its rooms
Relay(c, kind, target) ==
    /\ sock[c].connected
    /\ last' = Event(kind, c)
    /\ outbox' = <<Emit(kind, SocketTo(sock, c, target),
                        [sender |-> c, username |-> sock[c].username])>>
    /\ UNCHANGED <<rooms, sock, now>>

----------------------------------------------------------------------------
(* socket.on("send-message", (data) => ...) *)

SendMessage(c, text) ==
    /\ sock[c].connected
    /\ last' = Event("send-message", c)
    /\ UNCHANGED <<rooms, sock, now>>
    /\ IF sock[c].roomId # Undef
       THEN outbox' = <<Emit("new-message", IoTo(sock, sock[c].roomId),
                             [id |-> now, user |-> sock[c].username, userId |-> c,
                              text |-> text, timestamp |-> now])>>
       ELSE outbox' = << >>

----------------------------------------------------------------------------
(* socket.on("start-recording") and socket.on("stop-recording") *)

\* the gate written as a membership check
MayRecordMember(room, c) == MapHas(room.users, c) /\ room.settings.allowRecording

\* if (room.owner === socket.id && room.settings.allowRecording)
MayRecord(room, c) == room.owner = c /\ room.settings.allowRecording

\* if (room.owner === socket.id)
MayStopRecording(room, c) == room.owner = c

StartRecording(c) ==
    /\ sock[c].connected
    /\ last' = Event("start-recording", c)
    /\ UNCHANGED <<rooms, sock, now>>
    /\ IF sock[c].roomId # Undef /\ Has(rooms, sock[c].roomId)
          /\ MayRecord(rooms[sock[c].roomId], c)
       THEN outbox' = <<Emit("recording-started", IoTo(sock, sock[c].roomId),
                             [startedBy |-> sock[c].username])>>
       ELSE outbox' = << >>

StopRecording(c) ==
    /\ sock[c].connected
    /\ last' = Event("stop-recording", c)
    /\ UNCHANGED <<rooms, sock, now>>
    /\ IF sock[c].roomId # Undef /\ Has(rooms, sock[c].roomId)
          /\ MayStopRecording(rooms[sock[c].roomId], c)
       THEN outbox' = <<Emit("recording-stopped", IoTo(sock, sock[c].roomId), << >>)>>
       ELSE outbox' = << >>

----------------------------------------------------------------------------
(* socket.on("update-diagram", (data) => ...) *)

\* room.x = data.x, the previous value lost when the field is omitted
OrEmpty(sent, old) == IF sent # Omitted THEN CHOOSE v \in sent : TRUE ELSE << >>

\* data.x || room.x: an array, even an empty one, is truthy; an omitted field is not
OrElse(sent, old) == IF sent # Omitted THEN CHOOSE v \in sent : TRUE ELSE old

UpdateDiagram(c, nodes, edges) ==
    /\ sock[c].connected
    /\ last' = Event("update-diagram", c)
    /\ UNCHANGED <<sock, now>>
    /\ IF sock[c].roomId # Undef /\ Has(rooms, sock[c].roomId)
       THEN LET r == sock[c].roomId
            IN  /\ rooms' = [rooms EXCEPT ![r].nodes = OrElse(nodes, @),
                                          ![r].edges = OrElse(edges, @)]
                /\ outbox' = <<Emit("update-diagram", SocketTo(sock, c, r),
                                    [nodes |-> nodes, edges |-> edges])>>
       ELSE /\ outbox' = << >>
            /\ UNCHANGED rooms

----------------------------------------------------------------------------
(* setInterval(() => { ... }, 60 * 60 * 1000): the hourly sweep of old rooms *)

\* the age test written with >= : a room of exactly MAX_ROOM_AGE is swept too
ExpiredAtThreshold(room) == now - room.created >= MAX_ROOM_AGE /\ Len(room.users) = 0

\* if (now - room.created > MAX_ROOM_AGE && room.users.size === 0)
Expired(room) == now - room.created > MAX_ROOM_AGE /\ Len(room.users) = 0

Reaper ==
    /\ rooms' = [r \in {x \in DOMAIN rooms : ~Expired(rooms[x])} |-> rooms[r]]
    /\ outbox' = << >>
    /\ last' = [Event("reaper", Undef) EXCEPT
                  !.removed = {x \in DOMAIN rooms : Expired(rooms[x])}]
    /\ UNCHANGED <<sock, now>>

\* the wall clock moves on between two handlers
Tick(d) ==
    /\ now' = now + d
    /\ outbox' = << >>
    /\ last' = Event("tick", Undef)
    /\ UNCHANGED <<rooms, sock>>

----------------------------------------------------------------------------
\* one more inbound event or request is handled, while the exploration bound allows
Counted == handled < MaxEvents /\ handled' = handled + 1

\* Socket ids are opaque to the handlers, so the connections are named in the order
\* in which they first send an event: i is the next connection to send its first
\* event, or one that has sent one already.
From(i) ==
    /\ i <= active + 1
    /\ active' = IF i > active THEN i ELSE active
    /\ Counted

Next ==
    \/ \E i \in 1..Len(ConnOrder), r \in RoomIds, u \in Usernames, o \in BOOLEAN :
          From(i) /\ JoinRoom(ConnOrder[i], r, u, o)
    \/ \E i \in 1..Len(ConnOrder), r \in RoomIds, u \in Usernames, o \in BOOLEAN :
          From(i) /\ JoinVideoRoom(ConnOrder[i], r, u, o)
    \/ \E i \in 1..Len(ConnOrder), v \in Flags, a \in Flags :
          From(i) /\ MediaToggle(ConnOrder[i], v, a)
    \/ \E i \in 1..Len(ConnOrder), n \in Conns :
          From(i) /\ TransferOwnership(ConnOrder[i], n)
    \/ \E i \in 1..Len(ConnOrder) : From(i) /\ LeaveVideoRoom(ConnOrder[i])
    \/ \E i \in 1..Len(ConnOrder) : From(i) /\ LeaveRoom(ConnOrder[i])
    \/ \E i \in 1..Len(ConnOrder) : From(i) /\ Disconnect(ConnOrder[i])
    \/ \E r \in RoomIds : Counted /\ UNCHANGED active /\ HttpDeleteRoom(r)

Spec == Init /\ [][Next]_vars

\* The life of a room: creation by either join, diagram updates, hand-over and
\* departure of its members, the passing of time and the sweep of old rooms.
NextRoom ==
    \/ \E i \in 1..Len(ConnOrder), r \in RoomIds, u \in Usernames :
          From(i) /\ JoinRoom(ConnOrder[i], r, u, FALSE)
    \/ \E i \in 1..Len(ConnOrder), r \in RoomIds, u \in Usernames :
          From(i) /\ JoinVideoRoom(ConnOrder[i], r, u, FALSE)
    \/ \E i \in 1..Len(ConnOrder), n \in NodeInputs, e \in EdgeInputs :
          From(i) /\ UpdateDiagram(ConnOrder[i], n, e)
    \/ \E i \in 1..Len(ConnOrder), n \in Conns :
          From(i) /\ TransferOwnership(ConnOrder[i], n)
    \/ \E i \in 1..Len(ConnOrder) : From(i) /\ LeaveRoom(ConnOrder[i])
    \/ \E i \in 1..Len(ConnOrder) : From(i) /\ Disconnect(ConnOrder[i])
    \/ \E d \in Delays : Counted /\ UNCHANGED active /\ Tick(d)
    \/ Counted /\ UNCHANGED active /\ Reaper

SpecRoom == Init /\ [][NextRoom]_vars

\* Signalling and recording control among the members of rooms that come, hand the
\* room over and go.
NextSignal ==
    \/ \E i \in 1..Len(ConnOrder), r \in RoomIds, u \in Usernames :
          From(i) /\ JoinRoom(ConnOrder[i], r, u, FALSE)
    \/ \E i \in 1..Len(ConnOrder), r \in RoomIds, u \in Usernames :
          From(i) /\ JoinVideoRoom(ConnOrder[i], r, u, FALSE)
    \/ \E i \in 1..Len(ConnOrder), k \in RelayKinds, t \in Targets :
          From(i) /\ Relay(ConnOrder[i], k, t)
    \/ \E i \in 1..Len(ConnOrder), t \in Texts : From(i) /\ SendMessage(ConnOrder[i], t)
    \/ \E i \in 1..Len(ConnOrder) : From(i) /\ StartRecording(ConnOrder[i])
    \/ \E i \in 1..Len(ConnOrder) : From(i) /\ StopRecording(ConnOrder[i])
    \/ \E i \in 1..Len(ConnOrder), n \in Conns :
          From(i) /\ TransferOwnership(ConnOrder[i], n)
    \/ \E i \in 1..Len(ConnOrder) : From(i) /\ LeaveRoom(ConnOrder[i])
    \/ \E i \in 1..Len(ConnOrder) : From(i) /\ Disconnect(ConnOrder[i])

SpecSignal == Init /\ [][NextSignal]_vars

\* Joins whose payload may lack roomId or username, among leaves and disconnects.
NextJoin ==
    \/ \E i \in 1..Len(ConnOrder), r \in RoomIds \cup {Undef},
          u \in Usernames \cup {Undef} :
          From(i) /\ JoinRoom(ConnOrder[i], r, u, FALSE)
    \/ \E i \in 1..Len(ConnOrder), r \in RoomIds \cup {Undef},
          u \in Usernames \cup {Undef} :
          From(i) /\ JoinVideoRoom(ConnOrder[i], r, u, FALSE)
    \/ \E i \in 1..Len(ConnOrder) : From(i) /\ LeaveVideoRoom(ConnOrder[i])
    \/ \E i \in 1..Len(ConnOrder) : From(i) /\ LeaveRoom(ConnOrder[i])
    \/ \E i \in 1..Len(ConnOrder) : From(i) /\ Disconnect(ConnOrder[i])

SpecJoin == Init /\ [][NextJoin]_vars

\* Handlers that fail: events without a payload object, and departures whose emit
\* throws, among joins, hand-overs and departures that succeed.
NextFault ==
    \/ \E i \in 1..Len(ConnOrder), r \in RoomIds, u \in Usernames :
          Alive /\ From(i) /\ JoinRoom(ConnOrder[i], r, u, FALSE)
    \/ \E i \in 1..Len(ConnOrder), r \in RoomIds, u \in Usernames :
          Alive /\ From(i) /\ JoinVideoRoom(ConnOrder[i], r, u, FALSE)
    \/ \E i \in 1..Len(ConnOrder), n \in Conns :
          Alive /\ From(i) /\ TransferOwnership(ConnOrder[i], n)
    \/ \E i \in 1..Len(ConnOrder) : Alive /\ From(i) /\ LeaveRoom(ConnOrder[i])
    \/ \E i \in 1..Len(ConnOrder) : Alive /\ From(i) /\ Disconnect(ConnOrder[i])
    \/ \E i \in 1..Len(ConnOrder), k \in PayloadKinds :
          Alive /\ From(i) /\ NoPayload(ConnOrder[i], k)
    \/ \E i \in 1..Len(ConnOrder), k \in 1..4 :
          Alive /\ From(i) /\ LeaveRoomFails(ConnOrder[i], k)
    \/ \E i \in 1..Len(ConnOrder), k \in 1..4 :
          Alive /\ From(i) /\ DisconnectFails(ConnOrder[i], k)

SpecFault == Init /\ [][NextFault]_vars

\* The server until it is drained: connections join and leave while the exploration
\* bound allows, every connection may close at any time and does not come back, and
\* the interval timer runs the sweep.  The session is short against MAX_ROOM_AGE:
\* the clock is followed from the moment the last connection has closed, and for as
\* long as some room is not yet older than MAX_ROOM_AGE.  Closing, the clock and
\* the sweep are not counted: they stay possible after the last join.
Idle == UNCHANGED <<handled, active>>

Close(c) == Idle /\ Disconnect(c)

AllClosed == \A c \in Conns : ~sock[c].connected

Young(room) == now - room.created <= MAX_ROOM_AGE

Advance ==
    /\ AllClosed
    /\ \E r \in DOMAIN rooms : Young(rooms[r])
    /\ Idle
    /\ Tick(MAX_ROOM_AGE + 1)

Sweep == Idle /\ Reaper

NextDrain ==
    \/ \E i \in 1..Len(ConnOrder), r \in RoomIds, u \in Usernames :
          From(i) /\ JoinRoom(ConnOrder[i], r, u, FALSE)
    \/ \E i \in 1..Len(ConnOrder), r \in RoomIds, u \in Usernames :
          From(i) /\ JoinVideoRoom(ConnOrder[i], r, u, FALSE)
    \/ \E i \in 1..Len(ConnOrder) : From(i) /\ LeaveRoom(ConnOrder[i])
    \/ \E c \in Conns : Close(c)
    \/ Advance
    \/ Sweep

\* Every connection is closed in the end, the clock does not stop and the event loop
\* runs the interval timer's callback again and again.
DrainFairness ==
    /\ \A c \in Conns : WF_vars(Close(c))
    /\ WF_vars(Advance)
    /\ WF_vars(Sweep)

SpecDrain == Init /\ [][NextDrain]_vars /\ DrainFairness

----------------------------------------------------------------------------
(* Shorthands used by the properties below *)

\* socket.roomId names a room of the registry
InRoom(s, rs, c) == s[c].roomId # Undef /\ Has(rs, s[c].roomId)

\* the events of name ev in a handler's output, as positions
Positions(box, ev) == {i \in 1..Len(box) : box[i].ev = ev}

----------------------------------------------------------------------------
\* C1: every registered room with a non-empty general roster has an owner that is
\* a key of that general roster.
C1_OwnerInRoster ==
    \A r \in DOMAIN rooms :
        Len(rooms[r].users) > 0 => rooms[r].owner \in MapKeySet(rooms[r].users)

\* C2: no room with an empty general roster is present in the registry after a
\* handler has completed.
C2_NoEmptyRoom ==
    \A r \in DOMAIN rooms : Len(rooms[r].users) > 0

\* C3: in both rosters of every room, an entry's isOwner flag equals
\* (entry.id = room.owner).
C3_IsOwnerDerived ==
    \A r \in DOMAIN rooms :
        /\ \A i \in 1..Len(rooms[r].users) :
              rooms[r].users[i].isOwner = (rooms[r].users[i].id = rooms[r].owner)
        /\ \A i \in 1..Len(rooms[r].videoUsers) :
              rooms[r].videoUsers[i].isOwner = (rooms[r].videoUsers[i].id = rooms[r].owner)

----------------------------------------------------------------------------
\* both rosters of every room hold at most settings.maxUsers entries
WithinCapacity ==
    \A r \in DOMAIN rooms :
        /\ Len(rooms[r].users) <= rooms[r].settings.maxUsers
        /\ Len(rooms[r].videoUsers) <= rooms[r].settings.maxUsers

\* a join-room from a further connection, on a room whose general roster holds
\* maxUsers connections, is answered with "Room is full" to the requester alone and
\* leaves the roster as it was
FullRoomRejects ==
    last'.ev = "join-room" =>
    \A c \in {last'.id}, r \in RoomIds, u \in Usernames, o \in BOOLEAN :
        ( /\ JoinRoom(c, r, u, o)
          /\ Has(rooms, r)
          /\ Len(rooms[r].users) = rooms[r].settings.maxUsers
          /\ ~MapHas(rooms[r].users, c) )
        => /\ Len(outbox') = 1
           /\ outbox'[1].ev = "error"
           /\ outbox'[1].to = {c}
           /\ outbox'[1].data.message = "Room is full"
           /\ Has(rooms', r)
           /\ rooms'[r].users = rooms[r].users
           /\ Len(rooms'[r].users) = rooms[r].settings.maxUsers

\* C4: with maxUsers = N every roster holds at most N entries in every reachable
\* state, and the join-room of an (N+1)-th connection fails with RoomFull, the
\* roster staying at exactly N.
C4_Capacity == []WithinCapacity /\ [][FullRoomRejects]_vars

\* C4 witness: a join-room was just refused on a room holding N other connections
C4_Witness ==
    /\ last.ev = "join-room"
    /\ Len(outbox) = 1
    /\ outbox[1].ev = "error"
    /\ outbox[1].to = {last.id}
    /\ InRoom(sock, rooms, last.id)
    /\ Len(rooms[sock[last.id].roomId].users) = MaxUsersPerRoom
    /\ ~MapHas(rooms[sock[last.id].roomId].users, last.id)

----------------------------------------------------------------------------
\* C5: a join-room refused because the existing room is at capacity changes
\* neither the registry nor the requester's room association and transport-room
\* subscriptions.
C5_RejectedJoinNoMutation ==
    [][ last'.ev = "join-room" =>
        \A c \in {last'.id}, r \in RoomIds, u \in Usernames, o \in BOOLEAN :
          (JoinRoom(c, r, u, o) /\ Has(rooms, r) /\ IsFull(rooms[r]))
          => /\ rooms' = rooms
             /\ sock'[c].roomId = sock[c].roomId
             /\ sock'[c].rooms = sock[c].rooms ]_vars

----------------------------------------------------------------------------
\* C6: a transfer-ownership from a connection that is not the owner of its room
\* changes nothing (owner, both rosters with their isOwner flags, diagram state)
\* and emits no event at all.
C6_NonOwnerTransferNoop ==
    [][ ( /\ last'.ev = "transfer-ownership"
          /\ ~( /\ InRoom(sock, rooms, last'.id)
                /\ rooms[sock[last'.id].roomId].owner = last'.id ) )
        => /\ rooms' = rooms
           /\ sock' = sock
           /\ Len(outbox') = 0 ]_vars

\* C6 witness: a member of a room owned by someone else just sent transfer-ownership
C6_Witness ==
    /\ last.ev = "transfer-ownership"
    /\ Len(outbox) = 0
    /\ InRoom(sock, rooms, last.id)
    /\ MapHas(rooms[sock[last.id].roomId].users, last.id)
    /\ rooms[sock[last.id].roomId].owner # last.id
    /\ rooms[sock[last.id].roomId].owner \in MapKeySet(rooms[sock[last.id].roomId].users)

----------------------------------------------------------------------------
\* C7: when the only connection left in a room's general roster is disconnected,
\* the room is deleted from the registry, whatever rooms that connection joined
\* before or after.
C7_SoleDisconnectDeletes ==
    [][ \A r \in DOMAIN rooms :
          (last'.ev = "disconnect" /\ MapKeySet(rooms[r].users) = {last'.id})
          => ~Has(rooms', r) ]_vars

----------------------------------------------------------------------------
\* C8: when the current owner of a room departs (leave-room or connection-closed)
\* and the general roster is non-empty afterwards, the room still exists with
\* exactly one participant fewer, its new owner is one of the remaining general
\* participants, and ownership-transferred with that newOwnerId is emitted to the
\* room before the user-left notice.
C8_OwnerDepartureDelegates ==
    [][ \A r \in DOMAIN rooms :
          ( /\ \/ last'.ev = "leave-room" /\ sock[last'.id].roomId = r
               \/ last'.ev = "disconnect"
            /\ rooms[r].owner = last'.id
            /\ Has(rooms', r)
            /\ Len(rooms'[r].users) > 0 )
          => /\ Len(rooms'[r].users) = Len(rooms[r].users) - 1
             /\ rooms'[r].owner \in MapKeySet(rooms'[r].users)
             /\ \E i \in Positions(outbox', "ownership-transferred") :
                   /\ outbox'[i].data.newOwnerId = rooms'[r].owner
                   /\ outbox'[i].to = IoTo(sock', r)
                   /\ \A j \in Positions(outbox', "user-left") : i < j ]_vars

----------------------------------------------------------------------------
\* C9 as stated: a leave-room from a connection that is in the video roster of
\* its room leaves that video roster as it was.
C9_LeaveKeepsVideoRoster ==
    [][ ( /\ last'.ev = "leave-room"
          /\ InRoom(sock, rooms, last'.id)
          /\ MapHas(rooms[sock[last'.id].roomId].videoUsers, last'.id) )
        => /\ Has(rooms', sock[last'.id].roomId)
           /\ rooms'[sock[last'.id].roomId].videoUsers =
                 rooms[sock[last'.id].roomId].videoUsers ]_vars

\* C9 as amended: a leave-room removes the sender's entry from the video roster of
\* its room as well ("Remove from both user maps"): when the room survives, its
\* video roster is the previous one without the sender's entry, the other entries
\* kept in order and unchanged but for the isOwner recomputation.
C9_LeaveRemovesFromBothRosters ==
    [][ ( /\ last'.ev = "leave-room"
          /\ InRoom(sock, rooms, last'.id) )
        => LET c == last'.id
               r == sock[c].roomId
           IN  IF Has(rooms', r)
               THEN LET before == MapDelete(rooms[r].videoUsers, c)
                        after == rooms'[r].videoUsers
                    IN  /\ ~MapHas(after, c)
                        /\ ~MapHas(rooms'[r].users, c)
                        /\ Len(rooms'[r].users) > 0
                        /\ MapKeys(after) = MapKeys(before)
                        /\ \A i \in 1..Len(after) :
                              [after[i] EXCEPT !.isOwner = FALSE] =
                              [before[i] EXCEPT !.isOwner = FALSE]
               ELSE MapKeySet(rooms[r].users) \subseteq {c} ]_vars

\* C9 witness: a leave-room just removed the sender from the video roster of a room
\* that survives with another video participant
C9_Witness ==
    /\ last.ev = "leave-room"
    /\ "videoUsers" \in last.removed
    /\ InRoom(sock, rooms, last.id)
    /\ ~MapHas(rooms[sock[last.id].roomId].videoUsers, last.id)
    /\ Len(rooms[sock[last.id].roomId].videoUsers) > 0

----------------------------------------------------------------------------
\* what media-toggle{video: v, audio: a} must do to an entry of the video roster
Toggled(e, v, a) ==
    [e EXCEPT !.videoEnabled = IF v = Undef THEN e.videoEnabled ELSE v = "true",
              !.audioEnabled = IF a = Undef THEN e.audioEnabled ELSE a = "true"]

\* C10: a media-toggle from c changes only c's own videoEnabled/audioEnabled in the
\* video roster of c's room, an omitted flag keeping its value, and sends
\* user-media-update with the resulting flags to the rest of the room, not to c;
\* when c is not in that video roster nothing changes and nothing is emitted.
C10_MediaToggle ==
    [][ last'.ev = "media-toggle" =>
        LET c == last'.id
        IN  IF InRoom(sock, rooms, c) /\ MapHas(rooms[sock[c].roomId].videoUsers, c)
            THEN LET r == sock[c].roomId
                     old == rooms[r].videoUsers
                     new == rooms'[r].videoUsers
                     mine == MapGet(new, c)
                 IN  /\ DOMAIN rooms' = DOMAIN rooms
                     /\ \A x \in DOMAIN rooms \ {r} : rooms'[x] = rooms[x]
                     /\ [rooms'[r] EXCEPT !.videoUsers = old] = rooms[r]
                     /\ MapKeys(new) = MapKeys(old)
                     /\ \A i \in 1..Len(old) : old[i].id # c => new[i] = old[i]
                     /\ \A v \in Flags, a \in Flags :
                           MediaToggle(c, v, a) => mine = Toggled(MapGet(old, c), v, a)
                     /\ sock' = sock
                     /\ Len(outbox') = 1
                     /\ outbox'[1].ev = "user-media-update"
                     /\ outbox'[1].data.userId = c
                     /\ outbox'[1].data.video = mine.videoEnabled
                     /\ outbox'[1].data.audio = mine.audioEnabled
                     /\ c \notin outbox'[1].to
                     /\ outbox'[1].to = IoTo(sock, r) \ {c}
                     /\ \A d \in Conns \ {c} :
                           (sock[d].connected /\ sock[d].roomId = r) => d \in outbox'[1].to
            ELSE /\ rooms' = rooms
                 /\ sock' = sock
                 /\ Len(outbox') = 0 ]_vars

\* C10 witness: after join-video-room, media-toggle{video: false} left the sender
\* with video off and audio on, and told the other connection of the room so
C10_Witness ==
    /\ last.ev = "media-toggle"
    /\ Len(outbox) = 1
    /\ outbox[1].ev = "user-media-update"
    /\ outbox[1].data.userId = last.id
    /\ outbox[1].data.video = FALSE
    /\ outbox[1].data.audio = TRUE
    /\ outbox[1].to # {}
    /\ InRoom(sock, rooms, last.id)
    /\ MapHas(rooms[sock[last.id].roomId].videoUsers, last.id)
    /\ ~MapGet(rooms[sock[last.id].roomId].videoUsers, last.id).videoEnabled
    /\ MapGet(rooms[sock[last.id].roomId].videoUsers, last.id).audioEnabled

\* the silent case of C10: a media-toggle by a general participant outside the video
\* roster emitted nothing
C10_SilentWitness ==
    /\ last.ev = "media-toggle"
    /\ Len(outbox) = 0
    /\ InRoom(sock, rooms, last.id)
    /\ MapHas(rooms[sock[last.id].roomId].users, last.id)
    /\ ~MapHas(rooms[sock[last.id].roomId].videoUsers, last.id)

----------------------------------------------------------------------------
\* C11: every connection id is a key of the general roster of at most one room (a
\* join-room for another room takes the connection out of the room it was in).
C11_OneGeneralRoster ==
    \A c \in Conns :
        Cardinality({r \in DOMAIN rooms : MapHas(rooms[r].users, c)}) <= 1

----------------------------------------------------------------------------
\* C12: once a connection's disconnect has been handled, its id is a key of no
\* general roster and of no video roster of any room.
C12_OnlyLiveMembers ==
    \A c \in Conns :
        ~sock[c].connected =>
            \A r \in DOMAIN rooms :
                ~MapHas(rooms[r].users, c) /\ ~MapHas(rooms[r].videoUsers, c)

----------------------------------------------------------------------------
\* a roster m2 holds the entries of m, in the same order, with isOwner recomputed
\* for owner n and nothing else touched
Reflagged(m, m2, n) ==
    /\ MapKeys(m2) = MapKeys(m)
    /\ \A i \in 1..Len(m) : m2[i] = [m[i] EXCEPT !.isOwner = (m[i].id = n)]

\* C15: a transfer-ownership(newOwnerId) from the owner of its room sets the room's
\* owner to newOwnerId, flags isOwner in both rosters exactly on the entries of
\* newOwnerId, changes no membership and nothing else, and emits
\* ownership-transferred with the updated general roster to the room.
C15_OwnerTransfer ==
    [][ ( /\ last'.ev = "transfer-ownership"
          /\ InRoom(sock, rooms, last'.id)
          /\ rooms[sock[last'.id].roomId].owner = last'.id )
        => LET c == last'.id
               r == sock[c].roomId
           IN  \A n \in Conns :
                 TransferOwnership(c, n)
                 => /\ DOMAIN rooms' = DOMAIN rooms
                    /\ \A x \in DOMAIN rooms \ {r} : rooms'[x] = rooms[x]
                    /\ rooms'[r].owner = n
                    /\ Reflagged(rooms[r].users, rooms'[r].users, n)
                    /\ Reflagged(rooms[r].videoUsers, rooms'[r].videoUsers, n)
                    /\ [rooms'[r] EXCEPT !.owner = c, !.users = rooms[r].users,
                                         !.videoUsers = rooms[r].videoUsers] = rooms[r]
                    /\ sock' = sock
                    /\ Len(outbox') = 1
                    /\ outbox'[1].ev = "ownership-transferred"
                    /\ outbox'[1].to = IoTo(sock, r)
                    /\ outbox'[1].data.newOwnerId = n
                    /\ outbox'[1].data.users = rooms'[r].users ]_vars

\* C15 witness: the owner of a two-member room just handed the room to the other
\* member; the flag moved with it and both members were told
C15_Witness ==
    /\ last.ev = "transfer-ownership"
    /\ Len(outbox) = 1
    /\ outbox[1].ev = "ownership-transferred"
    /\ InRoom(sock, rooms, last.id)
    /\ LET room == rooms[sock[last.id].roomId]
       IN  /\ Len(room.users) = 2
           /\ MapHas(room.users, last.id)
           /\ ~MapGet(room.users, last.id).isOwner
           /\ room.owner # last.id
           /\ MapHas(room.users, room.owner)
           /\ MapGet(room.users, room.owner).isOwner
           /\ outbox[1].data.newOwnerId = room.owner
           /\ outbox[1].to = MapKeySet(room.users)

----------------------------------------------------------------------------
\* C17: a leave-room from a connection that is not in the general roster of its
\* room, and a leave-video-room from a connection that is not in the video roster of
\* its room, leave the registry as it was and send no error.
C17_AbsentLeaveNoop ==
    [][ ( \/ /\ last'.ev = "leave-room"
             /\ InRoom(sock, rooms, last'.id)
                  => ~MapHas(rooms[sock[last'.id].roomId].users, last'.id)
          \/ /\ last'.ev = "leave-video-room"
             /\ InRoom(sock, rooms, last'.id)
                  => ~MapHas(rooms[sock[last'.id].roomId].videoUsers, last'.id) )
        => /\ rooms' = rooms
           /\ Positions(outbox', "error") = {} ]_vars

----------------------------------------------------------------------------
\* C18: handling disconnect for c leaves the registry in the state that leave-room
\* followed by leave-video-room from c would have left it in.
C18_DisconnectIsLeaveBoth ==
    [][ last'.ev = "disconnect"
        => LET c == last'.id
               afterLeaveRoom == Depart(sock, rooms, c).rooms
           IN  rooms' = VideoDepart(sock, afterLeaveRoom, c).rooms ]_vars

\* C18 witness: a disconnect just took a connection out of both rosters of a room
\* that lives on
C18_Witness ==
    /\ last.ev = "disconnect"
    /\ last.removed = {"users", "videoUsers"}
    /\ ~sock[last.id].connected
    /\ InRoom(sock, rooms, last.id)
    /\ ~MapHas(rooms[sock[last.id].roomId].users, last.id)
    /\ ~MapHas(rooms[sock[last.id].roomId].videoUsers, last.id)

----------------------------------------------------------------------------
\* C13: an update-diagram replaces in the diagram state of the sender's room exactly
\* the fields its payload carries and keeps the value of every omitted one; rosters,
\* owner and everything else in the registry stay as they were.
C13_DiagramMerge ==
    [][ (last'.ev = "update-diagram" /\ InRoom(sock, rooms, last'.id))
        => LET c == last'.id
               r == sock[c].roomId
           IN  \A n \in NodeInputs, e \in EdgeInputs :
                 UpdateDiagram(c, n, e)
                 => /\ \A v \in n : rooms'[r].nodes = v
                    /\ \A v \in e : rooms'[r].edges = v
                    /\ n = Omitted => rooms'[r].nodes = rooms[r].nodes
                    /\ e = Omitted => rooms'[r].edges = rooms[r].edges
                    /\ DOMAIN rooms' = DOMAIN rooms
                    /\ \A x \in DOMAIN rooms \ {r} : rooms'[x] = rooms[x]
                    /\ [rooms'[r] EXCEPT !.nodes = rooms[r].nodes,
                                         !.edges = rooms[r].edges] = rooms[r] ]_vars

\* C13 witness: an update-diagram carrying nodes only just replaced the nodes of a
\* room and left the edges an earlier update had stored
C13_Witness ==
    /\ last.ev = "update-diagram"
    /\ Len(outbox) = 1
    /\ outbox[1].data.nodes = {<<"n1">>}
    /\ outbox[1].data.edges = Omitted
    /\ InRoom(sock, rooms, last.id)
    /\ rooms[sock[last.id].roomId].nodes = <<"n1">>
    /\ rooms[sock[last.id].roomId].edges = <<"e1">>

----------------------------------------------------------------------------
\* C19: a sweep deletes exactly the rooms that have an empty general roster and
\* are older than the 24-hour threshold; every other room, and everything else, is
\* left as it was.
C19_ReaperSweep ==
    [][ last'.ev = "reaper"
        => /\ DOMAIN rooms' =
                {r \in DOMAIN rooms :
                    ~(Len(rooms[r].users) = 0 /\ now - rooms[r].created > MAX_ROOM_AGE)}
           /\ \A r \in DOMAIN rooms' : rooms'[r] = rooms[r]
           /\ sock' = sock
           /\ now' = now
           /\ Len(outbox') = 0 ]_vars

\* C19 witness: a sweep just deleted a room and kept another room whose general
\* roster is empty as well, because that one is not older than the threshold
C19_Witness ==
    /\ last.ev = "reaper"
    /\ last.removed # {}
    /\ \E r \in DOMAIN rooms :
          /\ Len(rooms[r].users) = 0
          /\ now - rooms[r].created <= MAX_ROOM_AGE

----------------------------------------------------------------------------
\* C20: a join (join-room or join-video-room) naming an unknown room creates it
\* with the joining connection as owner; a join naming an existing room leaves that
\* room's owner, creation time, settings and diagram state as they were.
C20_GetOrCreate ==
    [][ (last'.ev \in {"join-room", "join-video-room"} /\ sock'[last'.id].roomId # Undef)
        => LET c == last'.id
               r == sock'[c].roomId
           IN  /\ Has(rooms', r)
               /\ IF Has(rooms, r)
                  THEN /\ rooms'[r].owner = rooms[r].owner
                       /\ rooms'[r].created = rooms[r].created
                       /\ rooms'[r].settings = rooms[r].settings
                       /\ rooms'[r].nodes = rooms[r].nodes
                       /\ rooms'[r].edges = rooms[r].edges
                  ELSE /\ rooms'[r].owner = c
                       /\ rooms'[r].created = now ]_vars

\* C20 witness: a second connection just joined a room that another connection had
\* created earlier and drawn in; the room is still the first connection's, of the
\* earlier creation time, with the drawing
C20_Witness ==
    /\ last.ev \in {"join-room", "join-video-room"}
    /\ InRoom(sock, rooms, last.id)
    /\ LET room == rooms[sock[last.id].roomId]
       IN  /\ room.owner # last.id
           /\ room.created < now
           /\ room.nodes # << >>
           /\ \/ MapHas(room.users, last.id)
              \/ MapHas(room.videoUsers, last.id)

----------------------------------------------------------------------------
\* C14: a relayed offer, answer or ice-candidate whose target is not a live
\* connection reaches no connection, sends no error to the sender and leaves the
\* registry as it was.
C14_DeadTargetDropped ==
    [][ last'.ev \in RelayKinds
        => \A t \in Targets :
             ( /\ Relay(last'.id, last'.ev, t)
               /\ ~(t \in Conns /\ sock[t].connected) )
             => /\ \A i \in 1..Len(outbox') : outbox'[i].to = {}
                /\ rooms' = rooms ]_vars

----------------------------------------------------------------------------
\* C16: recording-started is emitted only for a start-recording from the current
\* owner of the sender's room, with allowRecording set; recording-stopped only for a
\* stop-recording from the current owner; a refused request emits nothing, and
\* neither request changes the registry.
C16_RecordingOwnerGated ==
    [][ LET c == last'.id
            owns == /\ c \in Conns
                    /\ InRoom(sock, rooms, c)
                    /\ rooms[sock[c].roomId].owner = c
        IN  /\ \A i \in Positions(outbox', "recording-started") :
                  /\ last'.ev = "start-recording"
                  /\ owns
                  /\ rooms[sock[c].roomId].settings.allowRecording
            /\ \A i \in Positions(outbox', "recording-stopped") :
                  /\ last'.ev = "stop-recording"
                  /\ owns
            /\ last'.ev \in {"start-recording", "stop-recording"}
                  => /\ rooms' = rooms
                     /\ sock' = sock
                     /\ ~owns => Len(outbox') = 0 ]_vars

\* C16 witness: the connection that opened a room and handed it to the other member
\* just asked to start a recording, and nothing was emitted
C16_Witness ==
    /\ last.ev = "start-recording"
    /\ Len(outbox) = 0
    /\ handled = 4
    /\ InRoom(sock, rooms, last.id)
    /\ LET room == rooms[sock[last.id].roomId]
       IN  /\ MapKeys(room.users) = <<last.id, room.owner>>
           /\ room.videoUsers = << >>
           /\ room.settings.allowRecording

----------------------------------------------------------------------------
\* C24: no HTTP request changes the registry: the set of rooms, their rosters,
\* owners and diagram states are the same after it as before.
C24_HttpReadOnly ==
    [][ last'.ev = "http-delete-room" => rooms' = rooms ]_vars

----------------------------------------------------------------------------
\* C25: a join-room that is not refused emits exactly room-state to the joiner alone
\* (diagram, the roster with the joiner in it, isOwner = joiner is the owner), then
\* user-joined to the other subscribers of the room and not to the joiner, then
\* users-updated with the roster to all subscribers, the joiner included; a refused
\* join-room emits none of the three.
C25_JoinEmits ==
    [][ last'.ev = "join-room"
        => LET c == last'.id
               r == sock'[c].roomId
           IN  IF Positions(outbox', "error") = {}
               THEN /\ Has(rooms', r)
                    /\ MapHas(rooms'[r].users, c)
                    /\ Len(outbox') = 3
                    /\ outbox'[1].ev = "room-state"
                    /\ outbox'[1].to = {c}
                    /\ outbox'[1].data.nodes = rooms'[r].nodes
                    /\ outbox'[1].data.edges = rooms'[r].edges
                    /\ outbox'[1].data.users = rooms'[r].users
                    /\ outbox'[1].data.isOwner = (rooms'[r].owner = c)
                    /\ outbox'[2].ev = "user-joined"
                    /\ outbox'[2].to = IoTo(sock', r) \ {c}
                    /\ outbox'[2].data.socketId = c
                    /\ outbox'[3].ev = "users-updated"
                    /\ outbox'[3].to = IoTo(sock', r)
                    /\ c \in outbox'[3].to
                    /\ outbox'[3].data = rooms'[r].users
               ELSE /\ Positions(outbox', "room-state") = {}
                    /\ Positions(outbox', "user-joined") = {}
                    /\ Positions(outbox', "users-updated") = {} ]_vars

\* C25 witness: a second connection just joined a room; it got the room-state with
\* both members and isOwner false, the first member got user-joined, both got
\* users-updated
C25_Witness ==
    /\ last.ev = "join-room"
    /\ Len(outbox) = 3
    /\ outbox[1].ev = "room-state"
    /\ outbox[1].to = {last.id}
    /\ ~outbox[1].data.isOwner
    /\ Len(outbox[1].data.users) = 2
    /\ outbox[2].ev = "user-joined"
    /\ Cardinality(outbox[2].to) = 1
    /\ last.id \notin outbox[2].to
    /\ outbox[3].ev = "users-updated"
    /\ outbox[3].to = outbox[2].to \cup {last.id}

----------------------------------------------------------------------------
----------------------------------------------------------------------------
\* C30: a leave-room or disconnect never deletes a room whose video roster holds a
\* connection other than the departing one.
C30_NoDeleteWithVideoUsers ==
    [][ last'.ev \in {"leave-room", "disconnect"}
        => \A r \in (DOMAIN rooms) \ (DOMAIN rooms') :
              MapKeySet(rooms[r].videoUsers) \subseteq {last'.id} ]_vars

----------------------------------------------------------------------------
\* C26: a relayed offer, answer or ice-candidate reaches at most one connection,
\* the one whose id is the target, whatever string the target is.
C26_RelayIsPrivate ==
    [][ last'.ev \in RelayKinds
        => \A t \in Targets :
             Relay(last'.id, last'.ev, t)
             => \A i \in 1..Len(outbox') : outbox'[i].to \subseteq {t} ]_vars

----------------------------------------------------------------------------
\* C28: an update-diagram changes the diagram state of a room only when its sender
\* is in the general roster or in the video roster of that room.
C28_OnlyMembersEdit ==
    [][ last'.ev = "update-diagram"
        => \A r \in (DOMAIN rooms) \cap (DOMAIN rooms') :
              (rooms'[r].nodes # rooms[r].nodes \/ rooms'[r].edges # rooms[r].edges)
              => \/ MapHas(rooms[r].users, last'.id)
                 \/ MapHas(rooms[r].videoUsers, last'.id) ]_vars

----------------------------------------------------------------------------
\* the events a handler sends to a whole room
BroadcastKinds ==
    {"users-updated", "user-joined", "new-message", "update-diagram", "draw",
     "ownership-transferred", "recording-started"}

\* d is in the general roster or in the video roster of room r
Member(rs, r, d) ==
    Has(rs, r) /\ (MapHas(rs[r].users, d) \/ MapHas(rs[r].videoUsers, d))

\* C29: a broadcast of a room reaches, apart from the connection whose event caused
\* it, only connections that are members of the room at that time: none that left
\* it with leave-room and none whose join-room was refused.
C29_FanOutToMembers ==
    [][ last'.id \in Conns
        => \A i \in 1..Len(outbox') :
              outbox'[i].ev \in BroadcastKinds
              => \A d \in outbox'[i].to \ {last'.id} :
                    Member(rooms', sock'[last'.id].roomId, d) ]_vars

----------------------------------------------------------------------------
\* C21: a join-room or join-video-room without roomId or without username is
\* answered with one error event to the requester alone and changes nothing: no
\* room, no roster entry, no room association of the connection.
C21_MissingFieldRejected ==
    [][ last'.ev \in {"join-room", "join-video-room"}
        => \A r \in RoomIds \cup {Undef}, u \in Usernames \cup {Undef}, o \in BOOLEAN :
             ( /\ r = Undef \/ u = Undef
               /\ \/ JoinRoom(last'.id, r, u, o)
                  \/ JoinVideoRoom(last'.id, r, u, o) )
             => /\ Len(outbox') = 1
                /\ outbox'[1].ev = "error"
                /\ outbox'[1].to = {last'.id}
                /\ rooms' = rooms
                /\ sock' = sock ]_vars

----------------------------------------------------------------------------
\* C22: a failure while handling an event (here: the event came without a payload
\* object) is caught by the handler and reported to the sender as one error event;
\* no exception leaves the handler and ends the process.
C22_FailuresCaught ==
    [][ ( /\ last'.ev \in PayloadKinds
          /\ NoPayload(last'.id, last'.ev)
          /\ Fails(last'.id, last'.ev) )
        => /\ ~last'.threw
           /\ Len(outbox') = 1
           /\ outbox'[1].ev = "error"
           /\ outbox'[1].to = {last'.id} ]_vars

----------------------------------------------------------------------------
\* C23: when a leave-room or disconnect handler fails after it removed the departing
\* owner from the general roster, the room it leaves behind, if that roster is not
\* empty, has an owner that is a key of the roster, and the departing connection is
\* in neither roster.
C23_DepartureIsOneUnit ==
    [][ ( /\ last'.threw
          /\ last'.ev \in {"leave-room", "disconnect"}
          /\ InRoom(sock, rooms, last'.id)
          /\ rooms[sock[last'.id].roomId].owner = last'.id
          /\ MapHas(rooms[sock[last'.id].roomId].users, last'.id) )
        => LET c == last'.id
               r == sock[c].roomId
           IN  /\ Has(rooms', r)
               /\ ~MapHas(rooms'[r].users, c)
               /\ ~MapHas(rooms'[r].videoUsers, c)
               /\ Len(rooms'[r].users) > 0
                     => rooms'[r].owner \in MapKeySet(rooms'[r].users) ]_vars

\* C23 witness: the handler of a departing owner failed at its first emit, the
\* announcement of the new owner; the room is left with the remaining member as owner
C23_Witness ==
    /\ last.threw
    /\ last.ev \in {"leave-room", "disconnect"}
    /\ "users" \in last.removed
    /\ Len(outbox) = 0
    /\ InRoom(sock, rooms, last.id)
    /\ LET room == rooms[sock[last.id].roomId]
       IN  /\ Len(room.users) = 1
           /\ room.owner = room.users[1].id
           /\ room.users[1].isOwner
           /\ active = 2
           /\ handled = 3

----------------------------------------------------------------------------
\* C31: no room leaks: once every connection is closed (none joins any more), with
\* the sweep running fairly and the clock passing the age threshold, the registry
\* becomes empty and stays empty.
C31_NoRoomLeak == AllClosed ~> [](DOMAIN rooms = {})

=============================================================================
